---- MODULE Spec2Model ----
(***************************************************************************)
(* The hierarchical state machine engine of hierarchicalStateMachine.go:   *)
(* NewHierarchicalStateMachine and HandleStateMachine, with the helpers    *)
(* they call.  States are the integers 1..NumStates (a *State pointer),    *)
(* Nil is the nil pointer.  Every callback the engine invokes (entry, exit,*)
(* handle and transition actions, event and guard predicates) appends one  *)
(* record to the trace of the call, in invocation order.                   *)
(***************************************************************************)
EXTENDS Integers, Sequences, FiniteSets, TLC

MaxStates == 10

\* Bounds of the model.
NumStates == 4
MaxGuards == 2
MaxActions == 2

Nil == 0

\* A nil *HierarchicalStateMachine or error, and a non-nil one: the empty and
\* the one-element sequence.
None == <<>>
Some(x) == <<x>>

StateIds == 1 .. NumStates

\* The goroutines that call HandleStateMachine on the one machine.
Callers == {"a", "b"}

(***************************** the data model *****************************)

\* A list of n callbacks of one kind owned by one state or transition.
CallbackList(kind, owner, n) ==
    [i \in 1 .. n |-> [kind |-> kind, owner |-> owner, idx |-> i]]

\* Lengths of the declared callback lists: they differ from list to list and
\* include the empty (nil) list.
ListLen(owner, offset) == (owner + offset) % (MaxActions + 1)

\* type State struct: the action lists of state s (ParentState is below).
Entry(s) == CallbackList("Entry", s, ListLen(s, 0))
Exit(s) == CallbackList("Exit", s, ListLen(s, 1))
Handle(s) == CallbackList("Handle", s, ListLen(s, 2))

\* The parent relations of the model: every forest on StateIds, its states
\* numbered breadth first (roots first, then level by level, so a state's
\* parent has a smaller number than the state and parents do not decrease).
\* Every shape of forest on NumStates states has such a numbering.
Forests ==
    {p \in [StateIds -> 0 .. NumStates - 1] :
        \A s \in StateIds : p[s] < s /\ (s > 1 => p[s - 1] <= p[s])}

\* Every third transition of a table has guards: one, two, ... MaxGuards.
GuardCount(id) == IF id % 3 = 1 THEN 1 + ((id \div 3) % MaxGuards) ELSE 0

\* type Transition struct; id is the place of the transition in the table.
Transition(id, currentState, nextState) ==
    [CurrentState |-> currentState,
     Event        |-> [kind |-> "Event", owner |-> id, idx |-> 0],
     Guards       |-> CallbackList("Guard", id, GuardCount(id)),
     Actions      |-> CallbackList("Action", id, (id \div 2) % (MaxActions + 1)),
     NextState    |-> nextState]

\* The transition tables of the model.  Table(sink) declares one transition
\* for every ordered pair of states whose source is not sink, source by source
\* and, for one source, target by target: sink has no outgoing transition.
Table(sink) ==
    [i \in 1 .. NumStates * (NumStates - 1) |->
        LET k == (i - 1) \div NumStates
        IN  Transition(i, IF k + 1 < sink THEN k + 1 ELSE k + 2,
                          ((i - 1) % NumStates) + 1)]

\* A hierarchy deeper than the scratch buffers: the states 1 .. DeepStates, of
\* which 1 .. d are a chain (1 the root, d the innermost) and the others are
\* roots, for every d up to MaxStates + 1.
DeepStates == MaxStates + 2
DeepForests ==
    {[s \in 1 .. DeepStates |-> IF 1 < s /\ s <= d THEN s - 1 ELSE Nil] :
        d \in 1 .. MaxStates + 1}

\* The states a machine on a deep hierarchy starts in and moves between.
DeepCorners == {1, MaxStates, MaxStates + 1, MaxStates + 2}

\* The table given with a deep hierarchy: transitions between its corners.
DeepTable ==
    LET ends == << <<MaxStates + 2, MaxStates + 1>>, <<MaxStates + 1, MaxStates + 2>>,
                   <<MaxStates + 1, 1>>,             <<1, MaxStates + 1>>,
                   <<MaxStates, MaxStates + 2>>,     <<MaxStates + 2, MaxStates>>,
                   <<1, MaxStates>>,                 <<MaxStates, MaxStates + 1>>,
                   <<MaxStates + 1, MaxStates>>,     <<MaxStates + 2, 1>> >>
    IN  [i \in 1 .. Len(ends) |-> Transition(i, ends[i][1], ends[i][2])]

\* The Transition arrays a transitions slice can refer to: by their sink, and
\* the deep table at Nil.
Tables ==
    [t \in StateIds \cup {Nil} |-> IF t = Nil THEN DeepTable ELSE Table(t)]

\* The table given with an initial state: its sink is the next state.
SinkFor(initialState) == (initialState % NumStates) + 1

\* The lengths of the states slice given to the constructor: the states of the
\* hierarchy, or a slice padded to the bound or to one more.  The engine reads
\* only the length of the slice.
DeclaredCounts == {NumStates, MaxStates, MaxStates + 1}

VARIABLES
    parent,     \* the hierarchy: parent[s] is the ParentState of state s
    args,       \* the arguments of NewHierarchicalStateMachine
    sm,         \* the *HierarchicalStateMachine returned, None before and on error
    err,        \* the error returned, None when nil
    trace,      \* the callbacks invoked by the last call, in order
    start,      \* the world the last tick began in: the predicates that would
                \* return false, and the writes its handle actions make
    world,      \* the predicates that return false during the last tick
    before,     \* Some of the world and the current state of the tick before
                \* the last one, None if there was none (kept by AgainSpec alone)
    active,     \* for each state, how often its entry list was executed minus
                \* how often its exit list was, since the program began
    frame,      \* the call in progress, step by step: Some of its program
                \* counter and locals, None when no call is (StepSpec alone)
    threads,    \* for each caller, the call of HandleStateMachine it has in
                \* progress, as frame (RaceSpec alone)
    begun,      \* the callers that have called HandleStateMachine
    overlapped, \* whether a call began while another was in progress
    prev,       \* sm.CurrentState when the last call of HandleStateMachine began
    fired,      \* the place in the table of the transition the last tick executed, 0 if none
    op          \* the last call: "none", "new" or "handle"; "panic" for a
                \* call of HandleStateMachine that ended in a run-time panic

vars ==
    <<parent, args, sm, err, trace, start, world, before, active, frame,
      threads, begun, overlapped, prev, fired, op>>

(******************************* the engine *******************************)

\* One invocation of callback cb, made while sm.CurrentState is cur.
Invoke(cb, cur) ==
    [kind |-> cb.kind, owner |-> cb.owner, idx |-> cb.idx, cur |-> cur]

\* The run-time panic of an index expression out of the range of a
\* [MaxStates]*State array: state is the state whose write overran the array,
\* MaxStates the index.  It ends the call: nothing follows it in a trace.
Panic(state, cur) ==
    [kind |-> "Panic", owner |-> state, idx |-> MaxStates, cur |-> cur]

Panicked(calls) == calls # <<>> /\ calls[Len(calls)].kind = "Panic"

\* A predicate that returns what it returned on the tick before, when that
\* tick executed no transition.
EvalMemoized(p, w) ==
    IF op = "handle" /\ fired = 0 THEN p \notin world ELSE p \notin w

\* A predicate returns false exactly when it is in w.
Eval(p, w) == p \notin w

\* A world may hold writes: the handle action by, when invoked, sets the datum
\* the predicate flag returns to value.
Write(by, flag, value) ==
    [kind |-> "Write", owner |-> by.owner, idx |-> by.idx,
     flag |-> flag, value |-> value]

\* The world after one action was invoked in world w.
WrittenBy(call, w) ==
    LET made == {x \in w : x.kind = "Write" /\ call.kind = "Handle"
                              /\ x.owner = call.owner /\ x.idx = call.idx}
    IN  (w \ {x.flag : x \in {y \in made : y.value}})
            \cup {x.flag : x \in {y \in made : ~y.value}}

\* The world after the actions calls[k], calls[k + 1], ... were invoked in w.
RECURSIVE Written(_, _, _)
Written(calls, k, w) ==
    IF k > Len(calls)
    THEN w
    ELSE Written(calls, k + 1, WrittenBy(calls[k], w))

\* func executeActions
executeActions(actions, cur) ==
    [i \in 1 .. Len(actions) |-> Invoke(actions[i], cur)]

\* type State struct: the ParentState of state s, Nil for a root.
ParentState(s) == parent[s]

\* The selector executeActionsInHierarchy is called with: s.Entry or s.Handle.
ActionsOfKind(kind, s) ==
    CASE kind = "Entry"  -> Entry(s)
      [] kind = "Handle" -> Handle(s)

\* executeActionsInHierarchy running the state's own actions before its parent's.
RECURSIVE ChildFirstHierarchy(_, _, _)
ChildFirstHierarchy(state, kind, cur) ==
    IF state = Nil
    THEN <<>>
    ELSE executeActions(ActionsOfKind(kind, state), cur)
            \o ChildFirstHierarchy(ParentState(state), kind, cur)

\* func executeActionsInHierarchy: parent actions are executed first
RECURSIVE executeActionsInHierarchy(_, _, _)
executeActionsInHierarchy(state, kind, cur) ==
    IF state = Nil
    THEN <<>>
    ELSE executeActionsInHierarchy(ParentState(state), kind, cur)
            \o executeActions(ActionsOfKind(kind, state), cur)

\* The first loop of findCommonAncestor leaving out state1 itself.
VisitedProperAncestors(state1) ==
    IF state1 = Nil
    THEN <<>>
    ELSE LET RECURSIVE Above(_)
             Above(s) == IF s = Nil THEN <<>> ELSE <<s>> \o Above(ParentState(s))
         IN  Above(ParentState(state1))

\* The first loop of findCommonAncestor: state1 and its ancestors, innermost
\* first, as written to the visited buffer.
RECURSIVE Visited(_)
Visited(state1) ==
    IF state1 = Nil
    THEN <<>>
    ELSE <<state1>> \o Visited(ParentState(state1))

\* The second loop of findCommonAncestor going on to the outermost state of
\* state2's chain that was visited.
RECURSIVE OutermostVisited(_, _)
OutermostVisited(state2, visited) ==
    IF state2 = Nil
    THEN Nil
    ELSE LET above == OutermostVisited(ParentState(state2), visited)
         IN  IF above # Nil
             THEN above
             ELSE IF \E i \in 1 .. Len(visited) : state2 = visited[i]
                  THEN state2
                  ELSE Nil

\* The second loop of findCommonAncestor.
RECURSIVE FirstVisited(_, _)
FirstVisited(state2, visited) ==
    IF state2 = Nil
    THEN Nil
    ELSE IF \E i \in 1 .. Len(visited) : state2 = visited[i]
         THEN state2
         ELSE FirstVisited(ParentState(state2), visited)

\* The write visited[visitedCount] of the first loop is out of range: state1
\* has more than MaxStates states on its chain.
findCommonAncestorPanics(state1) == Len(Visited(state1)) > MaxStates

\* findCommonAncestor finding no common ancestor at all.
NoCommonAncestor(state1, state2) == Nil

\* func findCommonAncestor
findCommonAncestor(state1, state2) == FirstVisited(state2, Visited(state1))

\* exitToCommonAncestor running the exit actions of the common ancestor too.
RECURSIVE ExitThroughCommonAncestor(_, _, _)
ExitThroughCommonAncestor(state, commonAncestor, cur) ==
    IF state = Nil
    THEN <<>>
    ELSE IF state = commonAncestor
         THEN executeActions(Exit(state), cur)
         ELSE executeActions(Exit(state), cur)
                \o ExitThroughCommonAncestor(ParentState(state), commonAncestor, cur)

\* func exitToCommonAncestor
RECURSIVE exitToCommonAncestor(_, _, _)
exitToCommonAncestor(state, commonAncestor, cur) ==
    IF state = commonAncestor
    THEN <<>>
    ELSE executeActions(Exit(state), cur)
            \o exitToCommonAncestor(ParentState(state), commonAncestor, cur)

\* The first loop of enterFromCommonAncestor pushing the common ancestor too.
RECURSIVE StackThroughCommonAncestor(_, _)
StackThroughCommonAncestor(state, commonAncestor) ==
    IF state = Nil
    THEN <<>>
    ELSE IF state = commonAncestor
         THEN <<state>>
         ELSE <<state>> \o StackThroughCommonAncestor(ParentState(state), commonAncestor)

\* The first loop of enterFromCommonAncestor: the stack buffer.
RECURSIVE Stack(_, _)
Stack(state, commonAncestor) ==
    IF state = commonAncestor
    THEN <<>>
    ELSE <<state>> \o Stack(ParentState(state), commonAncestor)

\* The second loop of enterFromCommonAncestor walking the stack from its
\* bottom up (the target first).
RECURSIVE EnterStackBottomUp(_, _, _)
EnterStackBottomUp(stack, i, cur) ==
    IF i < 1
    THEN <<>>
    ELSE EnterStackBottomUp(stack, i - 1, cur) \o executeActions(Entry(stack[i]), cur)

\* The second loop of enterFromCommonAncestor: the stack from its top down.
RECURSIVE EnterStack(_, _, _)
EnterStack(stack, i, cur) ==
    IF i < 1
    THEN <<>>
    ELSE executeActions(Entry(stack[i]), cur) \o EnterStack(stack, i - 1, cur)

\* func enterFromCommonAncestor; the write stack[stackCount] of its first loop
\* is out of range when more than MaxStates states are to be entered.
enterFromCommonAncestor(state, commonAncestor, cur) ==
    LET stack == Stack(state, commonAncestor)
    IN  IF Len(stack) > MaxStates
        THEN <<Panic(stack[MaxStates + 1], cur)>>
        ELSE EnterStack(stack, Len(stack), cur)

\* executeTransitionActions running the transition's actions before the exits.
ActionsBeforeExits(transition, cur) ==
    LET commonAncestor ==
            findCommonAncestor(transition.CurrentState, transition.NextState)
    IN  executeActions(transition.Actions, cur)
            \o exitToCommonAncestor(transition.CurrentState, commonAncestor, cur)
            \o enterFromCommonAncestor(transition.NextState, commonAncestor, cur)

\* func executeTransitionActions
executeTransitionActions(transition, cur) ==
    IF findCommonAncestorPanics(transition.CurrentState)
    THEN <<Panic(Visited(transition.CurrentState)[MaxStates + 1], cur)>>
    ELSE LET commonAncestor ==
                findCommonAncestor(transition.CurrentState, transition.NextState)
         IN  exitToCommonAncestor(transition.CurrentState, commonAncestor, cur)
                \o executeActions(transition.Actions, cur)
                \o enterFromCommonAncestor(transition.NextState, commonAncestor, cur)

\* The states whose lists the walks execute, in the order of execution.
\* executeActionsInHierarchy: the chain of state, its root first.
RECURSIVE Hierarchy(_)
Hierarchy(state) ==
    IF state = Nil
    THEN <<>>
    ELSE Hierarchy(ParentState(state)) \o <<state>>

\* exitToCommonAncestor: state and its ancestors up to the common ancestor.
RECURSIVE Exited(_, _)
Exited(state, commonAncestor) ==
    IF state = commonAncestor
    THEN <<>>
    ELSE <<state>> \o Exited(ParentState(state), commonAncestor)

\* enterFromCommonAncestor: the stack from its top down; none when the stack
\* overruns.
Entered(state, commonAncestor) ==
    LET stack == Stack(state, commonAncestor)
    IN  IF Len(stack) > MaxStates
        THEN <<>>
        ELSE [k \in 1 .. Len(stack) |-> stack[Len(stack) + 1 - k]]

\* executeTransitionActions: the states exited and the states entered.
Walked(transition) ==
    IF findCommonAncestorPanics(transition.CurrentState)
    THEN [exited |-> <<>>, entered |-> <<>>]
    ELSE LET commonAncestor ==
                findCommonAncestor(transition.CurrentState, transition.NextState)
         IN  [exited  |-> Exited(transition.CurrentState, commonAncestor),
              entered |-> Entered(transition.NextState, commonAncestor)]

\* The count of executions after the lists of the states of walk were
\* executed once more: by = 1 for entry lists, by = -1 for exit lists.
Counted(count, walk, by) ==
    [s \in DOMAIN count |->
        count[s] + by * Cardinality({k \in 1 .. Len(walk) : walk[k] = s})]

\* The guard loop without its break: every guard is invoked.
RECURSIVE RunAllGuards(_, _, _, _)
RunAllGuards(guards, i, w, cur) ==
    IF i > Len(guards)
    THEN [guardsPassed |-> TRUE, trace |-> <<>>]
    ELSE LET rest == RunAllGuards(guards, i + 1, w, cur)
         IN  [guardsPassed |-> Eval(guards[i], w) /\ rest.guardsPassed,
              trace |-> <<Invoke(guards[i], cur)>> \o rest.trace]

\* The guard loop never clearing guardsPassed.
RECURSIVE RunGuardsAlwaysPass(_, _, _, _)
RunGuardsAlwaysPass(guards, i, w, cur) ==
    IF i > Len(guards)
    THEN [guardsPassed |-> TRUE, trace |-> <<>>]
    ELSE IF ~Eval(guards[i], w)
         THEN [guardsPassed |-> TRUE, trace |-> <<Invoke(guards[i], cur)>>]
         ELSE LET rest == RunGuardsAlwaysPass(guards, i + 1, w, cur)
              IN  [guardsPassed |-> rest.guardsPassed,
                   trace |-> <<Invoke(guards[i], cur)>> \o rest.trace]

\* The guard loop of HandleStateMachine from guard i on: the guards invoked
\* and whether all passed.
RECURSIVE RunGuards(_, _, _, _)
RunGuards(guards, i, w, cur) ==
    IF i > Len(guards)
    THEN [guardsPassed |-> TRUE, trace |-> <<>>]
    ELSE IF ~Eval(guards[i], w)
         THEN [guardsPassed |-> FALSE, trace |-> <<Invoke(guards[i], cur)>>]
         ELSE LET rest == RunGuards(guards, i + 1, w, cur)
              IN  [guardsPassed |-> rest.guardsPassed,
                   trace |-> <<Invoke(guards[i], cur)>> \o rest.trace]

\* The source test taking every transition of the table.
AnySourceMatches(machine, transition) == TRUE

\* The test of the transition's source against the current state.
SourceMatches(machine, transition) ==
    machine.CurrentState = transition.CurrentState

\* The transition loop without its break: after executing a transition it
\* goes on through the table from the new current state.
RECURSIVE ScanWithoutBreak(_, _, _)
ScanWithoutBreak(machine, i, w) ==
    IF i > machine.transitions
    THEN [CurrentState |-> machine.CurrentState, trace |-> <<>>, fired |-> 0]
    ELSE LET transition == Tables[machine.table][i]
             cur  == machine.CurrentState
             rest == ScanWithoutBreak(machine, i + 1, w)
             ev   == <<Invoke(transition.Event, cur)>>
             g    == RunGuards(transition.Guards, 1, w, cur)
             done == ev \o g.trace \o executeTransitionActions(transition, cur)
             more == ScanWithoutBreak(
                        [machine EXCEPT !.CurrentState = transition.NextState],
                        i + 1, w)
         IN  IF ~SourceMatches(machine, transition)
             THEN rest
             ELSE IF ~Eval(transition.Event, w)
             THEN [rest EXCEPT !.trace = ev \o @]
             ELSE IF ~g.guardsPassed
             THEN [rest EXCEPT !.trace = ev \o g.trace \o @]
             ELSE [more EXCEPT !.trace = done \o @,
                               !.fired = IF @ = 0 THEN i ELSE @]

\* The transition loop assigning sm.CurrentState before it executes the
\* transition's actions.
RECURSIVE ScanAssignFirst(_, _, _)
ScanAssignFirst(machine, i, w) ==
    IF i > machine.transitions
    THEN [CurrentState |-> machine.CurrentState, trace |-> <<>>, fired |-> 0]
    ELSE LET transition == Tables[machine.table][i]
             cur  == machine.CurrentState
             rest == ScanAssignFirst(machine, i + 1, w)
             ev   == <<Invoke(transition.Event, cur)>>
             g    == RunGuards(transition.Guards, 1, w, cur)
         IN  IF ~SourceMatches(machine, transition)
             THEN rest
             ELSE IF ~Eval(transition.Event, w)
             THEN [rest EXCEPT !.trace = ev \o @]
             ELSE IF ~g.guardsPassed
             THEN [rest EXCEPT !.trace = ev \o g.trace \o @]
             ELSE [CurrentState |-> transition.NextState,
                   trace |-> ev \o g.trace
                        \o executeTransitionActions(transition, transition.NextState),
                   fired |-> i]

\* The transition loop of HandleStateMachine from table place i on.  A panic
\* of executeTransitionActions ends the call before sm.CurrentState is assigned.
RECURSIVE ScanTransitions(_, _, _)
ScanTransitions(machine, i, w) ==
    IF i > machine.transitions
    THEN [CurrentState |-> machine.CurrentState, trace |-> <<>>, fired |-> 0]
    ELSE LET transition == Tables[machine.table][i]
             cur  == machine.CurrentState
             rest == ScanTransitions(machine, i + 1, w)
             ev   == <<Invoke(transition.Event, cur)>>
             g    == RunGuards(transition.Guards, 1, w, cur)
             done == executeTransitionActions(transition, cur)
         IN  IF ~SourceMatches(machine, transition)
             THEN rest
             ELSE IF ~Eval(transition.Event, w)
             THEN [rest EXCEPT !.trace = ev \o @]
             ELSE IF ~g.guardsPassed
             THEN [rest EXCEPT !.trace = ev \o g.trace \o @]
             ELSE [CurrentState |-> IF Panicked(done) THEN cur
                                    ELSE transition.NextState,
                   trace |-> ev \o g.trace \o done,
                   fired |-> i]

\* The world the predicates of a tick are evaluated in: the world the tick
\* began in, as the handle actions of the current state's chain left it.
Seen(machine, w) ==
    Written(executeActionsInHierarchy(machine.CurrentState, "Handle",
                                      machine.CurrentState), 1, w)

\* HandleStateMachine scanning the table before it runs the handle actions.
HandleAfterScan(machine, w) ==
    LET handled == executeActionsInHierarchy(machine.CurrentState, "Handle",
                                             machine.CurrentState)
    IN  [ScanTransitions(machine, 1, w) EXCEPT !.trace = @ \o handled]

\* func HandleStateMachine: sm.CurrentState after the call, the callbacks
\* invoked and the place of the transition executed.
HandleStateMachine(machine, w) ==
    LET handled == executeActionsInHierarchy(machine.CurrentState, "Handle",
                                             machine.CurrentState)
    IN  [ScanTransitions(machine, 1, Seen(machine, w)) EXCEPT !.trace = handled \o @]

\* The bound check refusing a slice of exactly MaxStates states.
TooManyStatesOffByOne(declared) == declared >= MaxStates

\* The bound check of NewHierarchicalStateMachine.
TooManyStates(declared) == declared > MaxStates

\* NewHierarchicalStateMachine running the entry actions of the initial state
\* alone, not of its ancestors.
NewWithoutHierarchy(initialState, declared, transitions) ==
    IF TooManyStates(declared)
    THEN [sm |-> None,
          err |-> Some([declared |-> declared, max |-> MaxStates]),
          trace |-> <<>>]
    ELSE [sm |-> Some([CurrentState |-> initialState, states |-> declared,
                       transitions |-> transitions.len,
                       table |-> transitions.table]),
          err |-> None,
          trace |-> executeActions(Entry(initialState), initialState)]

\* func NewHierarchicalStateMachine: the machine, the error and the callbacks
\* invoked.  The states slice is held by its length (declared = len(states)),
\* the transitions slice by its length and the array it refers to
\* (Tables[transitions.table]).
NewHierarchicalStateMachine(initialState, declared, transitions) ==
    IF TooManyStates(declared)
    THEN [sm |-> None,
          err |-> Some([declared |-> declared, max |-> MaxStates]),
          trace |-> <<>>]
    ELSE [sm |-> Some([CurrentState |-> initialState, states |-> declared,
                       transitions |-> transitions.len,
                       table |-> transitions.table]),
          err |-> None,
          trace |-> executeActionsInHierarchy(initialState, "Entry", initialState)]

(***************************** the environment ****************************)

\* The predicates of one transition.
PredicatesOf(transition) ==
    {transition.Event} \cup {transition.Guards[j] : j \in 1 .. Len(transition.Guards)}

\* The worlds a tick is run in: in the table's order, each transition leaving
\* the current state has exactly one false predicate, up to the first such
\* transition whose predicates are all true (if any); every other predicate of
\* the table is true.  Each world is the set of its false predicates.
RECURSIVE WorldsFrom(_, _)
WorldsFrom(machine, i) ==
    IF i > machine.transitions
    THEN {{}}
    ELSE IF machine.CurrentState # Tables[machine.table][i].CurrentState
         THEN WorldsFrom(machine, i + 1)
         ELSE {{}} \cup
              {{p} \cup w : p \in PredicatesOf(Tables[machine.table][i]),
                            w \in WorldsFrom(machine, i + 1)}

Worlds(machine) == WorldsFrom(machine, 1)

\* The place in the table of the first transition leaving the current state,
\* 0 if there is none.
FirstLeaving(machine) ==
    LET leaving == {i \in 1 .. machine.transitions :
                       Tables[machine.table][i].CurrentState = machine.CurrentState}
    IN  IF leaving = {} THEN 0
        ELSE CHOOSE i \in leaving : \A j \in leaving : i <= j

\* The worlds of a tick whose handle actions may write: those of Worlds, and
\* each of them with one write, made by the last handle action invoked for the
\* current state, of a datum a predicate of the first transition leaving the
\* current state reads.
DataWorlds(machine) ==
    LET cur     == machine.CurrentState
        handled == executeActionsInHierarchy(cur, "Handle", cur)
        first   == FirstLeaving(machine)
        flags   == IF first = 0 THEN {}
                   ELSE PredicatesOf(Tables[machine.table][first])
    IN  Worlds(machine) \cup
        {w \cup {Write(handled[k], flag, value)} :
            w \in Worlds(machine),
            k \in {k \in 1 .. Len(handled) : k = Len(handled)},
            flag \in flags, value \in BOOLEAN}

(***************************** the specification **************************)

Init ==
    /\ \E p \in Forests, initialState \in StateIds, declared \in DeclaredCounts :
          /\ parent = p
          /\ args = [initialState |-> initialState, declared |-> declared,
                     transitions |->
                        [len |-> Len(Tables[SinkFor(initialState)]),
                         table |-> SinkFor(initialState)]]
    /\ sm = None
    /\ err = None
    /\ trace = <<>>
    /\ start = {}
    /\ world = {}
    /\ before = None
    /\ active = [s \in DOMAIN parent |-> 0]
    /\ frame = None
    /\ threads = [c \in Callers |-> None]
    /\ begun = {}
    /\ overlapped = FALSE
    /\ prev = Nil
    /\ fired = 0
    /\ op = "none"

\* The caller constructs the machine.
New ==
    /\ op = "none"
    /\ \E r \in {NewHierarchicalStateMachine(args.initialState, args.declared,
                                             args.transitions)} :
           /\ sm' = r.sm
           /\ err' = r.err
           /\ trace' = r.trace
           /\ active' = IF r.sm = None THEN active
                        ELSE Counted(active, Hierarchy(args.initialState), 1)
    /\ op' = "new"
    /\ UNCHANGED <<parent, args, start, world, before, frame, prev, fired,
                   threads, begun, overlapped>>

\* One call of HandleStateMachine, begun in world w.
Call(w) ==
    /\ \E r \in {HandleStateMachine(sm[1], w)} :
          /\ sm' = Some([sm[1] EXCEPT !.CurrentState = r.CurrentState])
          /\ trace' = r.trace
          /\ fired' = r.fired
          /\ op' = IF Panicked(r.trace) THEN "panic" ELSE "handle"
          /\ active' =
                IF r.fired = 0 THEN active
                ELSE LET walked == Walked(Tables[sm[1].table][r.fired])
                     IN  Counted(Counted(active, walked.exited, -1),
                                 walked.entered, 1)
    /\ start' = w
    /\ world' = {x \in Seen(sm[1], w) : x.kind # "Write"}
    /\ prev' = sm[1].CurrentState
    /\ UNCHANGED <<parent, args, err, frame, threads, begun, overlapped>>

\* The driver calls HandleStateMachine once, in some world.  A panic ends the
\* program: no call follows it.
Tick ==
    /\ sm # None
    /\ op # "panic"
    /\ \E w \in Worlds(sm[1]) : Call(w)
    /\ UNCHANGED before

Next == New \/ Tick

Spec == Init /\ [][Next]_vars

\* The same program given a deep hierarchy: the states slice (of which the
\* engine reads the length alone) need not hold every state the ParentState
\* pointers and the transitions reach.
DeepInit ==
    /\ \E p \in DeepForests, initialState \in DeepCorners,
          declared \in DeclaredCounts :
          /\ parent = p
          /\ args = [initialState |-> initialState, declared |-> declared,
                     transitions |-> [len |-> Len(DeepTable), table |-> Nil]]
    /\ sm = None
    /\ err = None
    /\ trace = <<>>
    /\ start = {}
    /\ world = {}
    /\ before = None
    /\ active = [s \in DOMAIN parent |-> 0]
    /\ frame = None
    /\ threads = [c \in Callers |-> None]
    /\ begun = {}
    /\ overlapped = FALSE
    /\ prev = Nil
    /\ fired = 0
    /\ op = "none"

DeepSpec == DeepInit /\ [][Next]_vars

\* The hierarchies of the two specifications below: a chain, and a root with
\* every other state its child.
FewForests ==
    {p \in Forests : (\A s \in StateIds : p[s] = s - 1)
                        \/ (\A s \in StateIds : p[s] = IF s = 1 THEN Nil ELSE 1)}

FewInit ==
    /\ Init
    /\ parent \in FewForests
    /\ args.declared = NumStates

\* The same program, the tick before the last one kept.
AgainTick ==
    /\ sm # None
    /\ op # "panic"
    /\ \E w \in Worlds(sm[1]) : Call(w)
    /\ before' = IF op = "handle"
                  THEN Some([world |-> world, prev |-> prev])
                  ELSE None

AgainNext == New \/ AgainTick

AgainSpec == FewInit /\ [][AgainNext]_vars

\* The same program with handle actions that write the data the predicates
\* read.
DataTick ==
    /\ sm # None
    /\ op # "panic"
    /\ \E w \in DataWorlds(sm[1]) : Call(w)
    /\ UNCHANGED before

DataNext == New \/ DataTick

DataSpec == FewInit /\ [][DataNext]_vars

(************************* the engine, step by step ***********************)
(* The same code with each call taken one loop iteration at a time.  The   *)
(* locals of the call are the fields of frame[1]: pc (the loop or          *)
(* statement the call is at), state (the state, state1 or state2 pointer   *)
(* of the function running), pend (the states of the activations of        *)
(* executeActionsInHierarchy not yet returned, the outermost first), i     *)
(* (the place of the loop variable transition), j (of guard), visited,     *)
(* stack and k (stackCount, then the loop variable of the second loop),    *)
(* ca (commonAncestor), w (the world) and calls (the callbacks invoked).   *)
(* visits counts, for each state, the iterations that dereference it, and  *)
(* steps the iterations of the call; from and in are sm.CurrentState and   *)
(* the world when the call began.                                          *)

\* The locals of a call when it begins.
Begun(call, w) ==
    [call |-> call, pc |-> IF call = "new" THEN "check" ELSE "hierarchy",
     state |-> IF call = "new" THEN Nil ELSE sm[1].CurrentState,
     pend |-> <<>>, i |-> 0, j |-> 0, k |-> 0, visited |-> <<>>,
     stack |-> <<>>, ca |-> Nil, w |-> w, calls |-> <<>>,
     visits |-> [s \in DOMAIN parent |-> 0], steps |-> 0,
     from |-> IF call = "new" THEN Nil ELSE sm[1].CurrentState, in |-> w]

\* NewHierarchicalStateMachine up to the call of executeActionsInHierarchy.
StepCheck(f) ==
    IF TooManyStates(args.declared)
    THEN [f EXCEPT !.pc = "done"]
    ELSE [f EXCEPT !.pc = "hierarchy", !.state = args.initialState]

\* executeActionsInHierarchy: one activation, up to its recursive call.
StepHierarchy(f) ==
    IF f.state = Nil
    THEN [f EXCEPT !.pc = "unwind"]
    ELSE [f EXCEPT !.pend = <<f.state>> \o @,
                   !.state = ParentState(f.state),
                   !.visits[f.state] = @ + 1]

\* executeActionsInHierarchy: one activation, from the return of its
\* recursive call on; after the outermost, the caller goes on.
StepUnwind(f, cur) ==
    IF f.pend = <<>>
    THEN [f EXCEPT !.pc = IF f.call = "new" THEN "done" ELSE "scan", !.i = 1]
    ELSE LET invoked ==
                executeActions(
                    ActionsOfKind(IF f.call = "new" THEN "Entry" ELSE "Handle",
                                  Head(f.pend)), cur)
         IN  [f EXCEPT !.pend = Tail(@),
                       !.calls = @ \o invoked,
                       !.w = Written(invoked, 1, @),
                       !.visits[Head(f.pend)] = @ + 1]

\* The transition loop: one iteration, up to the guard loop.
StepScan(f, machine) ==
    IF f.i > machine.transitions
    THEN [f EXCEPT !.pc = "done", !.i = 0]
    ELSE LET transition == Tables[machine.table][f.i]
             ev == <<Invoke(transition.Event, machine.CurrentState)>>
         IN  IF ~SourceMatches(machine, transition)
             THEN [f EXCEPT !.i = @ + 1]
             ELSE IF ~Eval(transition.Event, f.w)
             THEN [f EXCEPT !.i = @ + 1, !.calls = @ \o ev]
             ELSE [f EXCEPT !.pc = "guards", !.j = 1, !.calls = @ \o ev]

\* The guard loop: one iteration; after the last, executeTransitionActions
\* and findCommonAncestor are entered.
StepGuards(f, machine) ==
    LET transition == Tables[machine.table][f.i]
    IN  IF f.j > Len(transition.Guards)
        THEN [f EXCEPT !.pc = "visit", !.state = transition.CurrentState,
                       !.visited = <<>>]
        ELSE IF ~Eval(transition.Guards[f.j], f.w)
        THEN [f EXCEPT !.pc = "scan", !.i = @ + 1,
                       !.calls = @ \o <<Invoke(transition.Guards[f.j],
                                               machine.CurrentState)>>]
        ELSE [f EXCEPT !.j = @ + 1,
                       !.calls = @ \o <<Invoke(transition.Guards[f.j],
                                               machine.CurrentState)>>]

\* findCommonAncestor, first loop: one iteration.
StepVisit(f, transition, cur) ==
    IF f.state = Nil
    THEN [f EXCEPT !.pc = "search", !.state = transition.NextState]
    ELSE IF Len(f.visited) >= MaxStates
    THEN [f EXCEPT !.pc = "panic", !.calls = @ \o <<Panic(f.state, cur)>>]
    ELSE [f EXCEPT !.visited = Append(@, f.state),
                   !.state = ParentState(f.state),
                   !.visits[f.state] = @ + 1]

\* findCommonAncestor, second loop: one iteration of the outer loop; on its
\* return, exitToCommonAncestor is entered.  The iteration that finds state2
\* among the visited compares pointers and returns: it dereferences no state.
StepSearch(f, transition) ==
    IF f.state = Nil
    THEN [f EXCEPT !.pc = "exit", !.ca = Nil, !.state = transition.CurrentState]
    ELSE IF \E n \in 1 .. Len(f.visited) : f.state = f.visited[n]
    THEN [f EXCEPT !.pc = "exit", !.ca = f.state,
                   !.state = transition.CurrentState]
    ELSE [f EXCEPT !.state = ParentState(f.state),
                   !.visits[f.state] = @ + 1]

\* The loop of exitToCommonAncestor without state = state.ParentState.
StepExitStuck(f, cur) ==
    IF f.state = f.ca
    THEN [f EXCEPT !.pc = "actions"]
    ELSE [f EXCEPT !.calls = @ \o executeActions(Exit(f.state), cur),
                   !.visits[f.state] = @ + 1]

\* exitToCommonAncestor: one iteration.
StepExit(f, cur) ==
    IF f.state = f.ca
    THEN [f EXCEPT !.pc = "actions"]
    ELSE [f EXCEPT !.calls = @ \o executeActions(Exit(f.state), cur),
                   !.state = ParentState(f.state),
                   !.visits[f.state] = @ + 1]

\* executeActions(transition.Actions); enterFromCommonAncestor is entered.
StepActions(f, transition, cur) ==
    [f EXCEPT !.pc = "push", !.state = transition.NextState, !.stack = <<>>,
              !.calls = @ \o executeActions(transition.Actions, cur)]

\* The first loop of enterFromCommonAncestor running on to the root, whatever
\* the common ancestor.
StepPushToRoot(f, cur) ==
    IF f.state = Nil
    THEN [f EXCEPT !.pc = "pop", !.k = Len(f.stack)]
    ELSE IF Len(f.stack) >= MaxStates
    THEN [f EXCEPT !.pc = "panic", !.calls = @ \o <<Panic(f.state, cur)>>]
    ELSE [f EXCEPT !.stack = Append(@, f.state),
                   !.state = ParentState(f.state),
                   !.visits[f.state] = @ + 1]

\* enterFromCommonAncestor, first loop: one iteration.
StepPush(f, cur) ==
    IF f.state = f.ca
    THEN [f EXCEPT !.pc = "pop", !.k = Len(f.stack)]
    ELSE IF Len(f.stack) >= MaxStates
    THEN [f EXCEPT !.pc = "panic", !.calls = @ \o <<Panic(f.state, cur)>>]
    ELSE [f EXCEPT !.stack = Append(@, f.state),
                   !.state = ParentState(f.state),
                   !.visits[f.state] = @ + 1]

\* enterFromCommonAncestor, second loop: one iteration.
StepPop(f, cur) ==
    IF f.k < 1
    THEN [f EXCEPT !.pc = "assign"]
    ELSE [f EXCEPT !.k = @ - 1,
                   !.calls = @ \o executeActions(Entry(f.stack[f.k]), cur),
                   !.visits[f.stack[f.k]] = @ + 1]

\* sm.CurrentState = transition.NextState; break
StepAssign(f) == [f EXCEPT !.pc = "done"]

\* The locals after the next step of the call.
Stepped(f) ==
    CASE f.pc = "check"     -> StepCheck(f)
      [] f.pc = "hierarchy" -> StepHierarchy(f)
      [] f.pc = "unwind"    -> StepUnwind(f, sm[1].CurrentState)
      [] f.pc = "scan"      -> StepScan(f, sm[1])
      [] f.pc = "guards"    -> StepGuards(f, sm[1])
      [] f.pc = "visit"     -> StepVisit(f, Tables[sm[1].table][f.i],
                                         sm[1].CurrentState)
      [] f.pc = "search"    -> StepSearch(f, Tables[sm[1].table][f.i])
      [] f.pc = "exit"      -> StepExit(f, sm[1].CurrentState)
      [] f.pc = "actions"   -> StepActions(f, Tables[sm[1].table][f.i],
                                           sm[1].CurrentState)
      [] f.pc = "push"      -> StepPush(f, sm[1].CurrentState)
      [] f.pc = "pop"       -> StepPop(f, sm[1].CurrentState)
      [] f.pc = "assign"    -> StepAssign(f)

\* The caller calls NewHierarchicalStateMachine.
BeginNew ==
    /\ op = "none"
    /\ frame = None
    /\ frame' = Some(Begun("new", {}))
    /\ op' = "new"
    /\ UNCHANGED <<parent, args, sm, err, trace, start, world, before, active,
                   prev, fired, threads, begun, overlapped>>

\* The driver calls HandleStateMachine, in some world.
BeginHandle ==
    /\ sm # None
    /\ frame = None
    /\ \E w \in Worlds(sm[1]) : frame' = Some(Begun("handle", w))
    /\ UNCHANGED <<parent, args, sm, err, trace, start, world, before, active,
                   prev, fired, op, threads, begun, overlapped>>

\* The call in progress takes its next step.  The constructor's check makes
\* the machine or the error; the assignment of line 72 moves the machine.
Step ==
    /\ frame # None
    /\ frame[1].pc \notin {"done", "panic"}
    /\ frame' = Some([Stepped(frame[1]) EXCEPT !.steps = @ + 1])
    /\ sm' = CASE frame[1].pc = "check" ->
                    NewHierarchicalStateMachine(args.initialState, args.declared,
                                                args.transitions).sm
               [] frame[1].pc = "assign" ->
                    Some([sm[1] EXCEPT !.CurrentState =
                            Tables[sm[1].table][frame[1].i].NextState])
               [] OTHER -> sm
    /\ err' = IF frame[1].pc = "check"
              THEN NewHierarchicalStateMachine(args.initialState, args.declared,
                                               args.transitions).err
              ELSE err
    /\ UNCHANGED <<parent, args, trace, start, world, before, active, prev,
                   fired, op, threads, begun, overlapped>>

\* The call returns.
Return ==
    /\ frame # None
    /\ frame[1].pc = "done"
    /\ frame' = None
    /\ UNCHANGED <<parent, args, sm, err, trace, start, world, before, active,
                   prev, fired, op, threads, begun, overlapped>>

StepNext == BeginNew \/ BeginHandle \/ Step \/ Return

\* The hierarchies of StepSpec: those above, and two chains side by side.
StepForests ==
    FewForests \cup
    {p \in Forests : \A s \in StateIds : p[s] = IF s <= 2 THEN Nil ELSE s - 2}

StepInit ==
    /\ Init
    /\ parent \in StepForests

StepSpec == StepInit /\ [][StepNext]_vars

\* The same, a call in progress never left waiting: the code runs on.
StepFairSpec == StepSpec /\ WF_vars(Step \/ Return)

(************************** calls running together *************************)
(* Two goroutines call HandleStateMachine on the one machine with nothing  *)
(* between them, so the steps of their calls interleave.  Each call has    *)
(* its own locals (visited and stack are arrays of its own activation);    *)
(* the calls share sm.CurrentState, read for the argument of line 52 and   *)
(* in every iteration of the loop at line 55, and written at line 72 with  *)
(* no synchronisation.  A read racing with the write of that pointer gives *)
(* the value before the write or the one after it: the order of the       *)
(* accesses, which is the order of the steps here.                         *)
(* threads[c] holds the locals of the call of caller c, as frame does.     *)

\* The counts of entry-list minus exit-list executions after the step a call
\* with locals f takes: exitToCommonAncestor executes the exit list of a state
\* in every iteration, enterFromCommonAncestor an entry list in every
\* iteration of its second loop.
StepCounted(count, f) ==
    CASE f.pc = "exit" /\ f.state # f.ca -> Counted(count, <<f.state>>, -1)
      [] f.pc = "pop" /\ f.k >= 1        -> Counted(count, <<f.stack[f.k]>>, 1)
      [] OTHER                           -> count

\* Caller c calls HandleStateMachine, once, in some world, whether or not
\* the other caller's call has returned.  The caller that calls first is
\* named "a".
RaceBegin(c) ==
    /\ sm # None
    /\ c \notin begun
    /\ c = "a" \/ begun # {}
    /\ \E w \in Worlds(sm[1]) :
          threads' = [threads EXCEPT ![c] = Some(Begun("handle", w))]
    /\ begun' = begun \cup {c}
    /\ overlapped' = (overlapped \/ \E d \in Callers : threads[d] # None)
    /\ UNCHANGED <<parent, args, sm, err, trace, start, world, before, active,
                   frame, prev, fired, op>>

\* The locals f with the invocations recorded as the callbacks invoked, in
\* order, and not the value of sm.CurrentState at each: the other call's
\* write of line 72 can fall before any one of them.
Unlabelled(f) ==
    [f EXCEPT !.calls =
        [n \in DOMAIN @ |->
            [kind |-> @[n].kind, owner |-> @[n].owner, idx |-> @[n].idx]]]

\* The places of a call that access sm.CurrentState, or end the call.
Shared == {"scan", "assign", "done", "panic"}

\* The locals of a call and the counts after it has run from locals f on to
\* its next access of sm.CurrentState: the step at f and the steps after it
\* that touch nothing but the locals of the call and the callbacks.  What
\* the other call does meanwhile changes neither which callbacks these steps
\* invoke nor their order; the invocations are kept without the current
\* state, which it can change between any two of them.
RECURSIVE RunToShared(_, _)
RunToShared(f, count) ==
    LET g == [Stepped(f) EXCEPT !.steps = @ + 1]
    IN  IF g.pc \in Shared
        THEN [f |-> Unlabelled(g), active |-> StepCounted(count, f)]
        ELSE RunToShared(g, StepCounted(count, f))

\* The call of caller c runs on to its next access of sm.CurrentState: from
\* the read of line 55 through the event and the guards to the next read, or
\* through executeTransitionActions to the write of line 72; or it makes
\* that write.
RaceStep(c) ==
    /\ threads[c] # None
    /\ threads[c][1].pc \notin {"done", "panic"}
    /\ \E r \in {RunToShared(threads[c][1], active)} :
          /\ threads' = [threads EXCEPT ![c] = Some(r.f)]
          /\ active' = r.active
    /\ sm' = IF threads[c][1].pc = "assign"
             THEN Some([sm[1] EXCEPT !.CurrentState =
                          Tables[sm[1].table][threads[c][1].i].NextState])
             ELSE sm
    /\ UNCHANGED <<parent, args, err, trace, start, world, before, frame, prev,
                   fired, op, begun, overlapped>>

\* The call of caller c returns.
RaceReturn(c) ==
    /\ threads[c] # None
    /\ threads[c][1].pc = "done"
    /\ threads' = [threads EXCEPT ![c] = None]
    /\ UNCHANGED <<parent, args, sm, err, trace, start, world, before, active,
                   frame, prev, fired, op, begun, overlapped>>

RaceNext ==
    \/ New
    \/ \E c \in Callers : RaceBegin(c)
    \/ \E c \in Callers : RaceStep(c)
    \/ \E c \in Callers : RaceReturn(c)

RaceInit == FewInit

RaceSpec == RaceInit /\ [][RaceNext]_vars

(**************************** the hierarchy, stated ************************)
(* The ancestry of a state as sets and depths, independent of the walks of *)
(* the engine.                                                             *)

\* The k-th ancestor of s (s itself for k = 0), Nil above the root.
RECURSIVE Up(_, _)
Up(s, k) == IF k = 0 \/ s = Nil THEN s ELSE Up(parent[s], k - 1)

\* s and its ancestors.
AncOrSelf(s) == {Up(s, k) : k \in 0 .. NumStates - 1} \ {Nil}

\* The number of states on the ancestry chain of s; 0 for Nil.
Depth(s) == Cardinality(AncOrSelf(s))

\* The ancestry chain of s from its root down to s.
Path(s) == [d \in 1 .. Depth(s) |-> CHOOSE a \in AncOrSelf(s) : Depth(a) = d]

\* The deepest state that is an ancestor-or-self of both s and t, Nil if none.
Lca(s, t) ==
    LET common == AncOrSelf(s) \cap AncOrSelf(t)
    IN  IF common = {}
        THEN Nil
        ELSE CHOOSE a \in common : \A b \in common : Depth(b) <= Depth(a)

\* The chain of s strictly below l (an ancestor-or-self of s, or Nil), outermost first.
Below(s, l) == SubSeq(Path(s), Depth(l) + 1, Depth(s))

Reverse(seq) == [k \in 1 .. Len(seq) |-> seq[Len(seq) + 1 - k]]

RECURSIVE Flatten(_)
Flatten(seqs) == IF seqs = <<>> THEN <<>> ELSE Head(seqs) \o Flatten(Tail(seqs))

\* The invocations of the callbacks of list, in declared order, once each,
\* made while the current state is cur.
Called(list, cur) ==
    [j \in 1 .. Len(list) |->
        [kind |-> list[j].kind, owner |-> list[j].owner, idx |-> j, cur |-> cur]]

\* The invocations of the lists List(s) for the states s of path, in order.
CalledAlong(List(_), path, cur) ==
    Flatten([d \in 1 .. Len(path) |-> Called(List(path[d]), cur)])

\* The invocations of the last call that are of one of the kinds.
Only(kinds) == SelectSeq(trace, LAMBDA e : e.kind \in kinds)

\* The invocations of the last call of one kind for one state or transition.
CallsOf(kind, owner) ==
    SelectSeq(trace, LAMBDA e : e.kind = kind /\ e.owner = owner)

\* The places in the trace of the invocations of one kind for one owner.
Places(kind, owner) ==
    {k \in 1 .. Len(trace) : trace[k].kind = kind /\ trace[k].owner = owner}

\* The table of the constructed machine.
TheTable == Tables[sm[1].table]

\* The last call was a tick, and a tick that executed a transition.
Ticked == op = "handle"
Fired == op = "handle" /\ fired # 0

\* Source and target of the transition the last tick executed, and their
\* deepest common ancestor.
Src == TheTable[fired].CurrentState
Tgt == TheTable[fired].NextState

\* In the world of the last tick: the event of transition i is true, its
\* guards are all true, and it leaves the state that was current.
EventTrue(i) == TheTable[i].Event \notin world
GuardsTrue(i) == \A j \in 1 .. Len(TheTable[i].Guards) : TheTable[i].Guards[j] \notin world
Leaves(i) == TheTable[i].CurrentState = prev
Matches(i) == Leaves(i) /\ EventTrue(i) /\ GuardsTrue(i)

(********************************* claims *********************************)

\* C1: a tick that executes a transition from S to T with deepest common
\* ancestor L invokes, after the handle dispatch (and besides the predicates
\* of the table), exactly the exit lists of the
\* states from S outward up to but excluding L, then the transition's action
\* list, then the entry lists of the states from just below L down to T; each
\* list in declared order, each action once.
C1_ExitsActionsEntries ==
    Fired =>
        Only({"Handle", "Exit", "Action", "Entry"}) =
            CalledAlong(Handle, Path(prev), prev)
                \o CalledAlong(Exit, Reverse(Below(Src, Lca(Src, Tgt))), prev)
                \o Called(TheTable[fired].Actions, prev)
                \o CalledAlong(Entry, Below(Tgt, Lca(Src, Tgt)), prev)

\* C1 witness: a transition between two states below a common ancestor that
\* is neither of them has run a two-action exit list, its own actions and an
\* entry list.
C1_Witness ==
    /\ Fired
    /\ Lca(Src, Tgt) \notin {Nil, Src, Tgt}
    /\ Len(Exit(Src)) = 2
    /\ Len(TheTable[fired].Actions) >= 1
    /\ Len(Entry(Tgt)) >= 1
    /\ Len(Only({"Exit", "Action", "Entry"})) >= 4

\* C2: a successful construction invokes the entry actions of the initial
\* state's ancestry chain, once each, root first and the initial state last,
\* and nothing else, and the machine's current state is the initial state.
C2_InitialEntries ==
    (op = "new" /\ err = None) =>
        /\ sm # None
        /\ sm[1].CurrentState = args.initialState
        /\ trace = CalledAlong(Entry, Path(args.initialState), args.initialState)

\* C2 witness: a machine constructed in a state three levels deep, with a
\* state off its chain that has entry actions.
C2_Witness ==
    /\ op = "new" /\ err = None
    /\ Depth(args.initialState) >= 3
    /\ \E s \in StateIds \ AncOrSelf(args.initialState) : Len(Entry(s)) >= 1
    /\ Len(trace) >= 3

\* C3: every tick invokes the handle actions of the ancestry chain of the
\* state current at its start, once each, root first, and no other handle
\* action, whether or not a transition is executed.
C3_HandleChain ==
    Ticked => Only({"Handle"}) = CalledAlong(Handle, Path(prev), prev)

\* C3 witness: a tick from a nested state with handle actions on its chain
\* has executed a transition to a state off that chain that has handle actions.
C3_Witness ==
    /\ Fired
    /\ Depth(prev) >= 2
    /\ Len(Only({"Handle"})) >= 2
    /\ Tgt \notin AncOrSelf(prev)
    /\ Len(Handle(Tgt)) >= 1

\* C4: the transition a tick executes is the first of the table that leaves
\* the current state and whose event and guards are all true; when there is
\* none, no transition is executed.  The current state moves accordingly.
C4_FirstMatch ==
    Ticked =>
        /\ fired \in 0 .. Len(TheTable)
        /\ fired # 0 => Matches(fired)
        /\ \A i \in 1 .. Len(TheTable) :
              (fired = 0 \/ i < fired) => ~Matches(i)
        /\ sm[1].CurrentState = IF fired = 0 THEN prev ELSE Tgt

\* C4 witness: the transition executed comes after one from the same source
\* that a guard held back and one of another source whose predicates were
\* all true, and before another match from the same source.
C4_Witness ==
    /\ Fired
    /\ \E i \in 1 .. fired - 1 : Leaves(i) /\ EventTrue(i) /\ ~GuardsTrue(i)
    /\ \E i \in 1 .. fired - 1 : ~Leaves(i) /\ EventTrue(i) /\ GuardsTrue(i)
    /\ \E i \in fired + 1 .. Len(TheTable) : Matches(i)

\* C5 as stated: of two transitions leaving the current state whose events
\* are both true, the second declared is never executed and none of its
\* actions is invoked.
C5_AsStated ==
    Ticked =>
        \A i, j \in 1 .. Len(TheTable) :
            (i < j /\ Leaves(i) /\ Leaves(j) /\ EventTrue(i) /\ EventTrue(j))
                => (fired # j /\ CallsOf("Action", j) = <<>>)

\* C5 amended: of two transitions leaving the current state whose events are
\* both true, the first declared having all its guards true, the second
\* declared is never executed and none of its actions is invoked.
C5_FirstDeclaredWins ==
    Ticked =>
        \A i, j \in 1 .. Len(TheTable) :
            (i < j /\ Leaves(i) /\ Leaves(j) /\ EventTrue(i) /\ EventTrue(j)
                   /\ GuardsTrue(i))
                => (fired # j /\ CallsOf("Action", j) = <<>>)

\* C5 witness: two transitions leaving the current state matched; the first
\* was executed, the second has actions and guards that are true.
C5_Witness ==
    /\ Fired
    /\ \E j \in fired + 1 .. Len(TheTable) :
          /\ Matches(j)
          /\ Len(TheTable[j].Actions) >= 1
    /\ Len(TheTable[fired].Actions) >= 1

\* C6: a tick that executes a transition from S to T invokes no exit and no
\* entry action of a state that is an ancestor-or-self of both; between two
\* different children of one parent it invokes the exit actions of S and the
\* entry actions of T alone.
C6_SharedAncestorsUntouched ==
    Fired =>
        /\ \A k \in 1 .. Len(trace) :
              trace[k].kind \in {"Exit", "Entry"}
                  => trace[k].owner \notin (AncOrSelf(Src) \cap AncOrSelf(Tgt))
        /\ (Src # Tgt /\ parent[Src] # Nil /\ parent[Src] = parent[Tgt]) =>
              /\ Only({"Exit"}) = Called(Exit(Src), prev)
              /\ Only({"Entry"}) = Called(Entry(Tgt), prev)

\* C6 witness: a transition between two children of a parent that has exit
\* and entry actions, itself the child of a state with both.
C6_Witness ==
    /\ Fired
    /\ Src # Tgt
    /\ parent[Src] # Nil
    /\ parent[Src] = parent[Tgt]
    /\ Len(Exit(parent[Src])) >= 1
    /\ Len(Entry(parent[Src])) >= 1
    /\ Len(Exit(Src)) >= 1
    /\ Len(Entry(Tgt)) >= 1

\* The exit actions of s ran once each, in order, and so did the entry
\* actions of t; every exit action of a ran before every entry action of b.
ExitsRan(s) == CallsOf("Exit", s) = Called(Exit(s), prev)
EntriesRan(t) == CallsOf("Entry", t) = Called(Entry(t), prev)
AllBefore(kind1, owner1, kind2, owner2) ==
    \A k1 \in Places(kind1, owner1), k2 \in Places(kind2, owner2) : k1 < k2

\* What C7 says of a transition from a child of A to a child of B.
CrossParents(A, B) ==
    /\ ExitsRan(Src) /\ ExitsRan(A)
    /\ AllBefore("Exit", Src, "Exit", A)
    /\ EntriesRan(B) /\ EntriesRan(Tgt)
    /\ AllBefore("Entry", B, "Entry", Tgt)
    /\ AllBefore("Exit", A, "Entry", B)

\* C7 as stated: a transition from a child of a parent A to a child of a
\* different parent B runs the exit actions of the source and then of A, the
\* entry actions of B and then of the target, A's exits before B's entries.
C7_AsStated ==
    (Fired /\ parent[Src] # Nil /\ parent[Tgt] # Nil /\ parent[Src] # parent[Tgt])
        => CrossParents(parent[Src], parent[Tgt])

\* C7 amended: the same, for parents A and B neither of which is an
\* ancestor of the other.
C7_CrossSubtree ==
    (Fired /\ parent[Src] # Nil /\ parent[Tgt] # Nil /\ parent[Src] # parent[Tgt]
           /\ parent[Src] \notin AncOrSelf(parent[Tgt])
           /\ parent[Tgt] \notin AncOrSelf(parent[Src]))
        => CrossParents(parent[Src], parent[Tgt])

\* C7 witness: a transition between children of two unrelated parents, the
\* four lists concerned all non-empty.
C7_Witness ==
    /\ Fired
    /\ parent[Src] # Nil /\ parent[Tgt] # Nil
    /\ parent[Src] \notin AncOrSelf(parent[Tgt])
    /\ parent[Tgt] \notin AncOrSelf(parent[Src])
    /\ Len(Exit(Src)) >= 1 /\ Len(Exit(parent[Src])) >= 1
    /\ Len(Entry(parent[Tgt])) >= 1 /\ Len(Entry(Tgt)) >= 1

\* C8: a tick in which every transition leaving the current state has a false
\* event or a false guard (or in which no transition leaves it) keeps the
\* current state and invokes, besides predicates, the handle actions of the
\* current state's chain alone.
C8_NoMatchNoEffect ==
    (Ticked /\ \A i \in 1 .. Len(TheTable) : ~Matches(i)) =>
        /\ sm[1].CurrentState = prev
        /\ Only({"Exit", "Entry", "Action"}) = <<>>
        /\ Only({"Handle", "Exit", "Entry", "Action"})
              = CalledAlong(Handle, Path(prev), prev)

\* C8 witness: a tick from a nested state with exit actions in which one
\* transition had a false event and another a true event and a false guard.
C8_Witness ==
    /\ Ticked
    /\ \A i \in 1 .. Len(TheTable) : ~Matches(i)
    /\ \E i \in 1 .. Len(TheTable) : Leaves(i) /\ ~EventTrue(i)
    /\ \E i \in 1 .. Len(TheTable) : Leaves(i) /\ EventTrue(i) /\ ~GuardsTrue(i)
    /\ Depth(prev) >= 2
    /\ Len(Exit(prev)) >= 1

\* C8, third case, witness: a tick in a state no transition leaves.
C8_SinkWitness ==
    /\ Ticked
    /\ \A i \in 1 .. Len(TheTable) : ~Leaves(i)
    /\ Len(trace) >= 1

\* C9: the guards of a transition are invoked in declared order, each after
\* true guards only (none after a false one), and none at all when the
\* transition does not leave the current state or its event is false.
C9_GuardShortCircuit ==
    Ticked =>
        \A i \in 1 .. Len(TheTable) :
            LET calls == CallsOf("Guard", i)
            IN  /\ Len(calls) <= Len(TheTable[i].Guards)
                /\ \A k \in 1 .. Len(calls) :
                      /\ calls[k].idx = k
                      /\ k < Len(calls) => TheTable[i].Guards[k] \notin world
                /\ (~Leaves(i) \/ ~EventTrue(i)) => calls = <<>>

\* C9 witness: a transition with two guards and a true event had its first
\* guard false, and one guard of it was invoked.
C9_Witness ==
    /\ Ticked
    /\ \E i \in 1 .. Len(TheTable) :
          /\ Leaves(i) /\ EventTrue(i)
          /\ Len(TheTable[i].Guards) >= 2
          /\ TheTable[i].Guards[1] \in world
          /\ Len(CallsOf("Guard", i)) = 1

\* C10: the constructor returns an error and no machine exactly when the
\* states slice is longer than MaxStates; the error carries the length and
\* the bound, and no callback is invoked.
C10_TooManyStates ==
    op = "new" =>
        /\ (err # None) <=> (args.declared > MaxStates)
        /\ (sm = None) <=> (err # None)
        /\ err # None =>
              /\ err[1] = [declared |-> args.declared, max |-> MaxStates]
              /\ trace = <<>>
        /\ args.declared = MaxStates => err = None

\* C10 witness: a slice of MaxStates + 1 states was refused, for an initial
\* state whose chain has entry actions.
C10_Witness ==
    /\ op = "new"
    /\ err # None
    /\ args.declared = MaxStates + 1
    /\ Len(CalledAlong(Entry, Path(args.initialState), args.initialState)) >= 2

\* C10, second witness: a slice of exactly MaxStates states was accepted.
C10_AtBoundWitness ==
    /\ op = "new"
    /\ err = None
    /\ args.declared = MaxStates

\* C11: a tick that executes a transition from S to T where one is a proper
\* ancestor of the other skips that ancestor's own exit and entry actions.
\* When S is a proper ancestor of T no exit action is invoked and the entry
\* actions invoked are those of the states strictly below S down to T; when T
\* is a proper ancestor of S the exit actions invoked are those of S up to the
\* state strictly below T and no entry action is invoked.  The current state
\* becomes T.
C11_AncestorEndpointSkipped ==
    Fired =>
        /\ (Src # Tgt /\ Src \in AncOrSelf(Tgt)) =>
              /\ Only({"Exit"}) = <<>>
              /\ Only({"Entry"}) = CalledAlong(Entry, Below(Tgt, Src), prev)
              /\ sm[1].CurrentState = Tgt
        /\ (Src # Tgt /\ Tgt \in AncOrSelf(Src)) =>
              /\ Only({"Entry"}) = <<>>
              /\ Only({"Exit"}) = CalledAlong(Exit, Reverse(Below(Src, Tgt)), prev)
              /\ sm[1].CurrentState = Tgt

\* C11 witness: a transition from a state with exit and entry actions down to
\* a descendant two levels below it that has entry actions.
C11_Witness ==
    /\ Fired
    /\ Src # Tgt
    /\ Src \in AncOrSelf(Tgt)
    /\ Depth(Tgt) >= Depth(Src) + 2
    /\ Len(Exit(Src)) >= 1
    /\ Len(Entry(Src)) >= 1
    /\ Len(Entry(Tgt)) >= 1

\* C11, second witness: a transition from a state with exit actions up to an
\* ancestor two levels above it that has exit and entry actions.
C11_UpWitness ==
    /\ Fired
    /\ Src # Tgt
    /\ Tgt \in AncOrSelf(Src)
    /\ Depth(Src) >= Depth(Tgt) + 2
    /\ Len(Exit(Src)) >= 1
    /\ Len(Exit(Tgt)) >= 1
    /\ Len(Entry(Tgt)) >= 1

\* C12: during a tick that executes a transition, sm.CurrentState is the
\* source while every handle, exit, transition and entry action (and every
\* predicate) is invoked, and is the target once the call has returned.
\* Between calls the current state is the initial state (after construction),
\* the state before the tick (no transition executed) or the target of the
\* transition the tick executed: never a state the exits and entries pass
\* through.
C12_StateChangesLast ==
    /\ Fired =>
          /\ \A k \in 1 .. Len(trace) : trace[k].cur = Src
          /\ sm[1].CurrentState = Tgt
    /\ (op = "new" /\ sm # None) => sm[1].CurrentState = args.initialState
    /\ (Ticked /\ fired = 0) => sm[1].CurrentState = prev

\* C12 witness: a transition between two different states has run exit,
\* transition and entry actions, two entry lists among them.
C12_Witness ==
    /\ Fired
    /\ Src # Tgt
    /\ Len(Only({"Exit"})) >= 1
    /\ Len(Only({"Action"})) >= 1
    /\ Len(Only({"Entry"})) >= 2
    /\ Depth(Tgt) >= Depth(Lca(Src, Tgt)) + 2
    /\ sm[1].CurrentState = Tgt

\* C13 as stated: once the constructor has accepted the states slice, no call
\* of HandleStateMachine overruns the visited buffer of findCommonAncestor or
\* the stack buffer of enterFromCommonAncestor, whatever the hierarchy and the
\* table.
C13_NoScratchOverrun ==
    (sm # None /\ sm[1].states <= MaxStates) => op # "panic"

\* C13: the overruns reached.  The visited buffer: a transition leaving a state
\* with MaxStates + 1 states on its chain panics before any exit action.
C13_VisitedOverrun ==
    /\ op = "panic"
    /\ sm[1].states <= MaxStates
    /\ Only({"Exit", "Action", "Entry"}) = <<>>
    /\ sm[1].CurrentState = prev

\* The stack buffer: a transition from a root into a state with MaxStates + 1
\* states on its chain panics after the exit and transition actions ran.
C13_StackOverrun ==
    /\ op = "panic"
    /\ sm[1].states <= MaxStates
    /\ Only({"Exit", "Action"}) # <<>>
    /\ Only({"Entry"}) = <<>>
    /\ sm[1].CurrentState = prev

\* At the bound: a transition that fills a buffer with exactly MaxStates
\* states is executed.
C13_AtBound ==
    /\ op = "handle"
    /\ fired # 0
    /\ Len(Visited(prev)) = MaxStates
    /\ sm[1].CurrentState # prev

\* Every predicate of transition i returns true in world v.
AllTrueIn(i, v) == \A p \in PredicatesOf(TheTable[i]) : p \notin v

\* C14: the predicates are evaluated afresh on every tick.  Of two ticks in a
\* row begun in the same state: a transition leaving it that a false event or
\* guard held back on the first is executed on the second when its predicates
\* are then all true and no transition declared before it matches; and a
\* transition one of whose predicates was true on the first tick and is false
\* on the second is not executed on the second.
C14_EvaluatedAfresh ==
    (Ticked /\ before # None /\ before[1].prev = prev) =>
        \A i \in 1 .. Len(TheTable) :
            Leaves(i) =>
                /\ (/\ ~AllTrueIn(i, before[1].world)
                    /\ AllTrueIn(i, world)
                    /\ \A j \in 1 .. i - 1 : ~Matches(j)) => fired = i
                /\ (\E p \in PredicatesOf(TheTable[i]) :
                        p \notin before[1].world /\ p \in world) => fired # i

\* C14 witness: a transition with a true event that a false guard held back on
\* one tick was executed on the next, begun in the same state.
C14_Witness ==
    /\ Fired
    /\ before # None
    /\ before[1].prev = prev
    /\ TheTable[fired].Event \notin before[1].world
    /\ \E j \in 1 .. Len(TheTable[fired].Guards) :
          TheTable[fired].Guards[j] \in before[1].world
    /\ sm[1].CurrentState # prev

\* C14, second witness: a transition executed on one tick (a self-transition)
\* is not executed on the next, a predicate of it having become false.
C14_NowFalseWitness ==
    /\ Ticked
    /\ before # None
    /\ before[1].prev = prev
    /\ \E i \in 1 .. Len(TheTable) :
          /\ Leaves(i)
          /\ AllTrueIn(i, before[1].world)
          /\ \A j \in 1 .. i - 1 : ~(Leaves(j) /\ AllTrueIn(j, before[1].world))
          /\ ~AllTrueIn(i, world)
          /\ fired # i

\* C15: for every two states s and t of the hierarchy, findCommonAncestor(s, t)
\* is the deepest state that is an ancestor-or-self of both: s when s = t or s
\* is an ancestor of t, t when t is an ancestor of s, and Nil exactly when s
\* and t have no common ancestor-or-self; it is the same for (t, s).
C15_CommonAncestorIsLca ==
    \A s, t \in StateIds :
        /\ findCommonAncestor(s, t) = Lca(s, t)
        /\ findCommonAncestor(s, t) = findCommonAncestor(t, s)
        /\ s \in AncOrSelf(t) => findCommonAncestor(s, t) = s
        /\ t \in AncOrSelf(s) => findCommonAncestor(s, t) = t
        /\ (findCommonAncestor(s, t) = Nil)
              <=> (AncOrSelf(s) \cap AncOrSelf(t) = {})

\* C15 witness: a transition was executed whose common ancestor is neither of
\* its ends and is not a root.
C15_Witness ==
    /\ Fired
    /\ findCommonAncestor(Src, Tgt) \notin {Nil, Src, Tgt}
    /\ Depth(findCommonAncestor(Src, Tgt)) >= 2

\* C15, second witness: a transition was executed between nested states of
\* two trees.
C15_DisjointWitness ==
    /\ Fired
    /\ findCommonAncestor(Src, Tgt) = Nil
    /\ Depth(Src) >= 2
    /\ Depth(Tgt) >= 2

\* C16: a tick that executes a transition from a state to itself invokes the
\* transition's own actions and no exit or entry action of any state; the
\* common ancestor is the state itself and the current state stays.
C16_SelfTransition ==
    (Fired /\ Src = Tgt) =>
        /\ findCommonAncestor(Src, Tgt) = Src
        /\ Only({"Exit", "Entry"}) = <<>>
        /\ Only({"Action"}) = Called(TheTable[fired].Actions, prev)
        /\ sm[1].CurrentState = prev

\* C16 witness: a self-transition of a nested state that has exit and entry
\* actions, under a parent that has both.
C16_Witness ==
    /\ Fired
    /\ Src = Tgt
    /\ Depth(Src) >= 2
    /\ Len(Exit(Src)) >= 1 /\ Len(Entry(Src)) >= 1
    /\ Len(Exit(parent[Src])) >= 1 /\ Len(Entry(parent[Src])) >= 1

\* C16, second witness: a self-transition that has actions, of a nested state
\* that has exit actions.
C16_ActionsWitness ==
    /\ Fired
    /\ Src = Tgt
    /\ Depth(Src) >= 2
    /\ Len(Exit(Src)) >= 1
    /\ Len(Only({"Action"})) >= 2

\* C17: from construction on and after every call, each state's entry list
\* has been executed as often as its exit list, or once more; the states for
\* which it is once more (entered and not yet exited) are exactly the current
\* state and its ancestors.  As the exits of a tick come before its entries,
\* no exit list is executed for a state that is not active and no entry list
\* for one that is.
C17_ActiveConfiguration ==
    /\ \A s \in StateIds : active[s] \in {0, 1}
    /\ sm = None => \A s \in StateIds : active[s] = 0
    /\ sm # None =>
          {s \in StateIds : active[s] = 1} = AncOrSelf(sm[1].CurrentState)

\* C17 witness: a tick has exited a whole chain of two states and entered
\* another, states without exit or entry actions among them.
C17_Witness ==
    /\ Fired
    /\ Lca(Src, Tgt) = Nil
    /\ Depth(Src) >= 2
    /\ Depth(Tgt) >= 2
    /\ \E s \in AncOrSelf(Src) : Len(Exit(s)) = 0 /\ active[s] = 0
    /\ \E s \in AncOrSelf(Tgt) : Len(Entry(s)) = 0 /\ active[s] = 1

\* C18: a call of HandleStateMachine executes at most one transition.  No
\* event or guard of a transition declared after the executed one is invoked,
\* even of one that leaves the state just entered; no event is invoked twice;
\* the transition actions invoked are those of the executed transition alone;
\* and the current state after the call is the state before it or the target
\* of the executed transition, which left the state before it.
C18_AtMostOneTransition ==
    Ticked =>
        /\ \A k \in 1 .. Len(trace) :
              /\ trace[k].kind \in {"Event", "Guard"} =>
                    /\ trace[k].owner \in 1 .. Len(TheTable)
                    /\ TheTable[trace[k].owner].CurrentState = prev
                    /\ fired # 0 => trace[k].owner <= fired
              /\ trace[k].kind = "Action" => (fired # 0 /\ trace[k].owner = fired)
        /\ \A i \in 1 .. Len(TheTable) : Len(CallsOf("Event", i)) <= 1
        /\ \/ fired = 0 /\ sm[1].CurrentState = prev
           \/ fired # 0 /\ Leaves(fired) /\ sm[1].CurrentState = Tgt

\* C18 witness: the executed transition entered another state, and a
\* transition declared after it leaves that state with its event and guards
\* all true and has actions.
C18_Witness ==
    /\ Fired
    /\ Tgt # prev
    /\ \E j \in fired + 1 .. Len(TheTable) :
          /\ TheTable[j].CurrentState = Tgt
          /\ TheTable[j].NextState # Tgt
          /\ AllTrueIn(j, world)
          /\ Len(TheTable[j].Actions) >= 1

\* The predicates that would return false when the last tick began, and those
\* that return false once the handle actions of the chain of the state then
\* current have made their writes.
FalseAtStart == {x \in start : x.kind # "Write"}
FalseAfterHandle ==
    LET made == {x \in start : /\ x.kind = "Write"
                               /\ x.owner \in AncOrSelf(prev)
                               /\ x.idx \in 1 .. Len(Handle(x.owner))}
    IN  (FalseAtStart \ {x.flag : x \in {y \in made : y.value}})
            \cup {x.flag : x \in {y \in made : ~y.value}}

\* Transition i leaves the state that was current and its predicates are all
\* true in world v; it is the first of the table that does.
MatchesIn(i, v) == Leaves(i) /\ AllTrueIn(i, v)
FirstMatchIn(i, v) == MatchesIn(i, v) /\ \A j \in 1 .. i - 1 : ~MatchesIn(j, v)

\* C19: in a tick every handle action of the current state's chain is invoked
\* before any event or guard, and the predicates return what the data are
\* after the handle actions' writes: the transition executed is the first
\* match on the data as the handle actions left them (none if there is none),
\* so a write of a handle action enables or disables a transition in the same
\* tick.
C19_HandleBeforePredicates ==
    Ticked =>
        /\ Only({"Handle"}) = CalledAlong(Handle, Path(prev), prev)
        /\ \A k1, k2 \in 1 .. Len(trace) :
              (trace[k1].kind = "Handle" /\ trace[k2].kind \in {"Event", "Guard"})
                  => k1 < k2
        /\ world = FalseAfterHandle
        /\ \A i \in 1 .. Len(TheTable) :
              FirstMatchIn(i, FalseAfterHandle) => fired = i
        /\ (\A i \in 1 .. Len(TheTable) : ~MatchesIn(i, FalseAfterHandle))
              => fired = 0

\* C19 witness: a transition whose guard would have returned false when the
\* tick began was executed in that tick, a handle action having made it true.
C19_Witness ==
    /\ Fired
    /\ \E j \in 1 .. Len(TheTable[fired].Guards) :
          /\ TheTable[fired].Guards[j] \in FalseAtStart
          /\ \E x \in start : /\ x.kind = "Write"
                              /\ x.flag = TheTable[fired].Guards[j]
                              /\ x.value
    /\ sm[1].CurrentState # prev

\* C19, second witness: the first match on the data as they were when the tick
\* began was not executed, a handle action having made its event false; a
\* later transition was.
C19_DisabledWitness ==
    /\ Fired
    /\ \E i \in 1 .. fired - 1 :
          /\ FirstMatchIn(i, FalseAtStart)
          /\ TheTable[i].Event \in FalseAfterHandle

\* The steps a call takes at most: two for every activation of
\* executeActionsInHierarchy, one for every iteration of the five loops over
\* a chain and for their exits, one for every transition and every guard, and
\* the single statements.
StepBound ==
    7 * (NumStates + 1) + Len(Tables[args.transitions.table]) * (MaxGuards + 2) + 3

\* The step-by-step call, returned, has invoked the callbacks and left the
\* current state that HandleStateMachine and NewHierarchicalStateMachine give.
StepwiseAgrees ==
    (frame # None /\ frame[1].pc = "done") =>
        IF frame[1].call = "new"
        THEN frame[1].calls =
                NewHierarchicalStateMachine(args.initialState, args.declared,
                                            args.transitions).trace
        ELSE \E r \in {HandleStateMachine(
                          [sm[1] EXCEPT !.CurrentState = frame[1].from],
                          frame[1].in)} :
                /\ frame[1].calls = r.trace
                /\ sm[1].CurrentState = r.CurrentState
                /\ frame[1].i = r.fired

\* C20: on a forest, with callbacks that return, every call of
\* NewHierarchicalStateMachine and of HandleStateMachine terminates: a call in
\* progress has taken at most StepBound steps and, unless it is returning, can
\* take another.  It has invoked the event of each transition at most once,
\* and has visited only states of the chains of the state it began in and of
\* the target of the transition it executes, each at most four times (a state
\* of the source's chain twice by executeActionsInHierarchy, once by the first
\* loop of findCommonAncestor and once by exitToCommonAncestor; a state of
\* the target's chain alone once by the second loop of findCommonAncestor and
\* once by each loop of enterFromCommonAncestor).
C20_CallsTerminate ==
    frame # None =>
        /\ frame[1].steps <= StepBound
        /\ frame[1].pc # "panic"
        /\ frame[1].pc # "done" => ENABLED Step
        /\ \A i \in 1 .. Len(Tables[args.transitions.table]) :
              Cardinality({n \in 1 .. Len(frame[1].calls) :
                              /\ frame[1].calls[n].kind = "Event"
                              /\ frame[1].calls[n].owner = i}) <= 1
        /\ \A s \in StateIds :
              /\ frame[1].visits[s] <= 4
              /\ frame[1].visits[s] > 0 =>
                    \/ s \in AncOrSelf(IF frame[1].call = "new"
                                       THEN args.initialState
                                       ELSE frame[1].from)
                    \/ /\ frame[1].i \in 1 .. Len(TheTable)
                       /\ s \in AncOrSelf(TheTable[frame[1].i].NextState)

\* C20 witness: a call of HandleStateMachine returns that evaluated a guard
\* and executed a transition between nested states of two trees, one state
\* visited four times.
C20_Witness ==
    /\ frame # None
    /\ frame[1].call = "handle"
    /\ frame[1].pc = "done"
    /\ frame[1].i # 0
    /\ frame[1].ca = Nil
    /\ Len(frame[1].visited) >= 2
    /\ Len(frame[1].stack) >= 2
    /\ \E n \in 1 .. Len(frame[1].calls) : frame[1].calls[n].kind = "Guard"
    /\ \E s \in StateIds : frame[1].visits[s] = 4

\* C20, under fair scheduling of the call in progress: every call returns.
C20_EachCallReturns == (frame # None) ~> (frame = None)

\* The invocations of callbacks of one kind owned by state s that the call
\* of caller c has made.
RacedCalls(c, kind, s) ==
    SelectSeq(threads[c][1].calls, LAMBDA e : e.kind = kind /\ e.owner = s)

\* C21: as long as no call of HandleStateMachine has begun while another was
\* in progress, every state's entry list has been executed as often as its
\* exit list or once more, and between calls the states entered and not
\* exited are exactly the current state and its ancestors: no state change
\* has its exits or its entries executed twice.  (With calls in progress
\* together the balance can break: C21_Witness.)
C21_SerializedKeepsBalance ==
    (sm # None /\ ~overlapped) =>
        /\ \A s \in StateIds : active[s] \in {0, 1}
        /\ (\A c \in Callers : threads[c] = None) =>
              {s \in StateIds : active[s] = 1} = AncOrSelf(sm[1].CurrentState)
        /\ \A c, d \in Callers :
              (c # d /\ threads[c] # None) => threads[d] = None

\* C21 witness: two calls in progress together have both selected the same
\* transition, leaving the state both began in; each has executed the exit
\* actions of its source and the entry actions of its target, the current
\* state has changed once, from the source to the target, and the source has
\* been exited once more than entered, the target entered twice.
C21_Witness ==
    /\ overlapped
    /\ sm # None
    /\ \A c \in Callers : threads[c] # None /\ threads[c][1].pc = "done"
    /\ \E i \in 1 .. Len(TheTable) :
          LET src == TheTable[i].CurrentState
              tgt == TheTable[i].NextState
          IN  /\ \A c \in Callers :
                    /\ threads[c][1].i = i
                    /\ threads[c][1].from = src
                    /\ Len(RacedCalls(c, "Exit", src)) = Len(Exit(src))
                    /\ Len(RacedCalls(c, "Entry", tgt)) = Len(Entry(tgt))
              /\ Len(Exit(src)) >= 1
              /\ Len(Entry(tgt)) >= 1
              /\ sm[1].CurrentState = tgt
              /\ args.initialState = src
              /\ active[src] = -1
              /\ active[tgt] = 2

====
